---- MODULE Spec2Model ----
(***************************************************************************)
(* Universal Hardware Programmer (src/src/main.cpp): one controller that   *)
(* drives a parallel NAND flash, an SPI NOR flash and an I2C EEPROM behind *)
(* a single-character serial command interface.                            *)
(*                                                                         *)
(* The target is an 8-bit AVR (the sketch writes DDRD/PORTD/PINB), so      *)
(* byte is 8 bits, unsigned int is 16 bits and unsigned long is 32 bits.   *)
(*                                                                         *)
(* The state is the two globals of the sketch, the position of the         *)
(* handler being run (a handler is suspended only inside its polling       *)
(* loops), the levels of the NAND control pins, and the traffic the        *)
(* handler being run (or run last) put on each bus.                        *)
(***************************************************************************)
EXTENDS Integers, Sequences, FiniteSets, TLC

(* ------------------------------ bounds -------------------------------- *)

\* Longest data sequence a write command carries in the model.
MaxLen == 3

\* Granularity, in ms, of the time that passes between two polls.
TickMs == 500

\* Status polls of one SPI erase that are recorded on the SPI log.
MaxPolls == 2

(* ------------------------- program constants -------------------------- *)

SPI_CMD_WRITE_ENABLE == 6
SPI_CMD_READ_STATUS == 5
SPI_CMD_FAST_READ == 11
SPI_CMD_PAGE_PROGRAM == 2
SPI_CMD_SECTOR_ERASE == 32
SPI_CMD_BLOCK_ERASE_64K == 216
SPI_CMD_CHIP_ERASE == 199
SPI_CMD_READ_ID == 159

NAND_CMD_READ_ID == 144
NAND_CMD_READ_STATUS == 112
NAND_CMD_READ == 0
NAND_CMD_READ_CONFIRM == 48
NAND_CMD_PROGRAM == 128
NAND_CMD_PROGRAM_CONFIRM == 16
NAND_CMD_ERASE == 96
NAND_CMD_ERASE_CONFIRM == 208
NAND_CMD_RESET == 255

\* enum MemoryType
MemoryType == {"MEM_UNKNOWN", "MEM_NAND_FLASH", "MEM_SPI_FLASH", "MEM_I2C_EEPROM"}

\* byte i2cAddress = 0x50
DefaultI2CAddress == 80

\* setI2CAddress accepts newAddress >= 0x08 && newAddress <= 0x77
I2C_ADDR_MIN == 8
I2C_ADDR_MAX == 119

\* waitForNandReady gives up once millis() - startTime > 1000
NandTimeoutMs == 1000

(* --------------------------- integer widths --------------------------- *)

\* Conversion to byte and to unsigned int (16 bits on AVR).
U8(x) == x % 256
U16(x) == x % 65536

\* An unsigned long is held as <<high 16 bits, low 16 bits>>.
ULong(n) == <<(n \div 65536) % 65536, n % 65536>>

\* a + k in unsigned long (k an unsigned int): wraps at 2^32.
UlAdd(a, k) ==
  LET sum == a[2] + k
  IN <<(a[1] + sum \div 65536) % 65536, sum % 65536>>

\* a % m and a / m for m a power of two up to 2^16 (the quotient is below
\* 2^31 for the page and block sizes of the sketch).
UlMod(a, m) == a[2] % m
UlDiv(a, m) == a[1] * (65536 \div m) + a[2] \div m

\* a > n for n below 2^16.
UlGreater(a, n) == a[1] > 0 \/ a[2] > n

\* a < b
UlLess(a, b) == a[1] < b[1] \/ (a[1] = b[1] /\ a[2] < b[2])

\* (a >> k) & 0xFF of an unsigned long for k = 0, 8, 16.
UlByte0(a) == a[2] % 256
UlByte1(a) == a[2] \div 256
UlByte2(a) == a[1] % 256

\* (x >> k) & 0xFF for k = 0, 8 on an unsigned int.
Byte0(x) == x % 256
Byte1(x) == (x \div 256) % 256

Min(a, b) == IF a < b THEN a ELSE b

(* ------------------------------- state -------------------------------- *)

VARIABLES
  currentMemoryType,  \* global MemoryType currentMemoryType
  i2cAddress,         \* global byte i2cAddress
  shift16,            \* what the build makes of (x >> 16) on a 16-bit x
  pc,                 \* "idle", or the polling loop the handler is in
  frame,              \* the suspended driver function and its locals
  elapsed,            \* millis() - startTime of the running wait
  req,                \* the command being handled (or handled last)
  out,                \* what that command printed, message by message
  nandCE, nandCLE, nandALE,  \* levels of the NAND control pins
  nandLog,            \* pin writes and bytes on the NAND bus, this command
  spiLog,             \* chip-select edges and bytes on the SPI bus
  i2cLog,             \* transactions on the two-wire bus
  nandDev,            \* the NAND device behind the bus
  expect              \* history: data a read must return to round-trip

vars == <<currentMemoryType, i2cAddress, shift16, pc, frame, elapsed, req, out,
          nandCE, nandCLE, nandALE, nandLog, spiLog, i2cLog, nandDev, expect>>

globals == <<currentMemoryType, i2cAddress>>
pins == <<nandCE, nandCLE, nandALE>>

(* ------------------------------ helpers ------------------------------- *)

Max(S) == CHOOSE x \in S : \A y \in S : y <= x

\* The elements of the set of integers S in ascending order.
RECURSIVE Ascending(_)
Ascending(S) ==
  IF S = {} THEN <<>>
  ELSE LET m == CHOOSE x \in S : \A y \in S : x <= y
       IN <<m>> \o Ascending(S \ {m})

(* ------------------------------ hex dump ------------------------------ *)

\* A row of a dump as it is printed: the number after "0x", the bytes of
\* the hex column, and the characters of the ASCII column (a byte from 32
\* to 126 as itself, any other as '.', which is 46).
AsciiColumn(buffer) ==
  [j \in 1..Len(buffer) |->
     IF buffer[j] >= 32 /\ buffer[j] <= 126 THEN buffer[j] ELSE 46]

DumpRow(prefix, buffer) == <<"row", prefix, buffer, AsciiColumn(buffer)>>

\* The rows of numBytes bytes, and the bytes of row k (from 1).
RowCount(numBytes) == (numBytes + 15) \div 16
RowBytes(bytes, k) == SubSeq(bytes, 16 * (k - 1) + 1, Min(16 * k, Len(bytes)))

\* hexDump(readFunc, numBytes): the row that starts at byte i is printed
\* with i as its number.
hexDump(bytes) ==
  [k \in 1..RowCount(Len(bytes)) |->
     DumpRow(<<0, 16 * (k - 1)>>, RowBytes(bytes, k))]

\* The dump written out in spiReadData: the row that starts at byte i is
\* printed with address + i as its number.
DumpAt(address, bytes) ==
  [k \in 1..RowCount(Len(bytes)) |->
     DumpRow(UlAdd(address, 16 * (k - 1)), RowBytes(bytes, k))]

(* ------------------------------ NAND bus ------------------------------ *)

\* An event on the NAND side is <<kind, value>>: a digitalWrite to one of
\* the control pins ("CE", "CLE", "ALE" with the level), a byte strobed out
\* with write-enable ("W"), a byte sampled with read-enable ("R"), or the
\* end of a wait for ready/busy ("RB" with 1 = went high, 0 = timed out).
digitalWrite(pin, level) == <<pin, level>>
nandWriteByte(data) == <<"W", U8(data)>>
nandReadByte(data) == <<"R", data>>
RbEvent(timedOut) == <<"RB", IF timedOut THEN 0 ELSE 1>>

\* digitalWrite(CLE, HIGH); nandWriteByte(c); digitalWrite(CLE, LOW)
NandCommand(c) ==
  <<digitalWrite("CLE", 1), nandWriteByte(c), digitalWrite("CLE", 0)>>

\* (x >> 16) & 0xFF on a 16-bit unsigned int: the shift count equals the
\* width of the type, which C leaves undefined.  avr-gcc clears the
\* result; a build that reduces the count modulo the width leaves x.
Shr16(x) == IF shift16 = "zero" THEN 0 ELSE Byte0(x)

\* The five address bytes of nandReadData and nandWriteData.
NandAddress5(address) ==
  LET pageSize == 512
      page == U16(UlDiv(address, pageSize))
      offset == U16(UlMod(address, pageSize))
  IN <<digitalWrite("ALE", 1),
       nandWriteByte(Byte0(offset)),
       nandWriteByte(Byte1(offset)),
       nandWriteByte(Byte0(page)),
       nandWriteByte(Byte1(page)),
       nandWriteByte(Shr16(page)),
       digitalWrite("ALE", 0)>>

\* Level of a pin after the events of log, given its level before them.
LevelAfter(log, pin, before) ==
  LET js == {j \in 1..Len(log) : log[j][1] = pin}
  IN IF js = {} THEN before ELSE log[Max(js)][2]

\* Level of a pin just before event i of log (the pins idle low).
LevelAt(log, pin, i, idle) == LevelAfter(SubSeq(log, 1, i - 1), pin, idle)

\* The events of log paired with their positions, and back.
Numbered(log) == [i \in 1..Len(log) |-> <<i, log[i]>>]
Unnumbered(ps) == [k \in 1..Len(ps) |-> ps[k][2]]

\* The bytes of log strobed out while address-latch was high, in order.
AddressBytes(log) ==
  LET At(p) == p[2][1] = "W" /\ LevelAt(log, "ALE", p[1], 0) = 1
  IN Unnumbered(SelectSeq(Numbered(log), At))

\* The bytes strobed out while command-latch was high, in order.
CommandBytes(log) ==
  LET At(p) == p[2][1] = "W" /\ LevelAt(log, "CLE", p[1], 0) = 1
  IN Unnumbered(SelectSeq(Numbered(log), At))

\* The bytes strobed out with both latches low (data), in order.
DataBytes(log) ==
  LET At(p) == /\ p[2][1] = "W"
               /\ LevelAt(log, "CLE", p[1], 0) = 0
               /\ LevelAt(log, "ALE", p[1], 0) = 0
  IN Unnumbered(SelectSeq(Numbered(log), At))

\* The bytes sampled from the bus, in order.
ReadBytes(log) == LET At(e) == e[1] = "R" IN SelectSeq(log, At)

Values(events) == [k \in 1..Len(events) |-> events[k][2]]

(* ----------------------------- NAND device ---------------------------- *)

\* The device behind the NAND bus.  It decodes what the bus carries: a
\* page program stores the data bytes at the row and column of the five
\* address bytes, a read returns what is stored there (0xFF where nothing
\* is), an erase clears the block, and bit 0 of the status byte is the
\* outcome of the last program or erase.  The device keeps the page it has
\* programmed last.
NoProgram == [row |-> 0, col |-> 0, data |-> <<>>, fail |-> 0]

Row(a) == a[3] + 256 * a[4] + 65536 * a[5]
Col(a) == a[1] + 256 * a[2]

\* The device after the program confirm, for the address and data bytes
\* the bus carried; ok is whether the device managed to program.
DevProgram(log, ok) ==
  LET a == Values(AddressBytes(log))
  IN IF ok /\ Len(a) = 5
     THEN [row |-> Row(a), col |-> Col(a),
           data |-> Values(DataBytes(log)), fail |-> 0]
     ELSE [nandDev EXCEPT !.fail = 1]

\* The device after the erase confirm: the bus carried a block index in
\* three address bytes, or no address at all (the device refuses that).
DevErase(log, ok) ==
  LET a == Values(AddressBytes(log))
  IN IF ok /\ Len(a) = 3
     THEN IF (nandDev.row \div 32) = a[1] + 256 * a[2] + 65536 * a[3]
          THEN [NoProgram EXCEPT !.fail = 0]
          ELSE [nandDev EXCEPT !.fail = 0]
     ELSE [nandDev EXCEPT !.fail = 1]

\* Byte k (from 0) the device clocks out after a read of the address the
\* bus carried.
DevReadByte(log, k) ==
  LET a == Values(AddressBytes(log))
      c == Col(a) + k
  IN IF /\ Row(a) = nandDev.row
        /\ c >= nandDev.col
        /\ c < nandDev.col + Len(nandDev.data)
     THEN nandDev.data[c - nandDev.col + 1]
     ELSE 255

\* The status byte: bit 6 ready, bit 0 the last program or erase failed.
DevStatus(busy) == (IF busy THEN 0 ELSE 64) + nandDev.fail

\* The five identity bytes of the device.
DevIdentity == <<236, 118, 165, 192, 0>>

(* ------------------------------- SPI bus ------------------------------ *)

\* An event on the SPI side is <<"CS", level, 0>>, a digitalWrite to the
\* chip-select pin, or <<"T", sent, received>>, one SPI.transfer.
spiSelect(level) == <<"CS", level, 0>>
spiTransfer(sent, received) == <<"T", U8(sent), received>>

\* What the flash holds at an address (the device is not written here).
FlashByte(address) == U8(65 + address[2])

\* waitForSpiReady: one read of the status register.
waitForSpiReady(status) ==
  <<spiSelect(0), spiTransfer(SPI_CMD_READ_STATUS, 0),
    spiTransfer(0, status), spiSelect(1)>>

\* The write-enable frame that opens spiWritePage and spiErase.
SpiWriteEnable ==
  <<spiSelect(0), spiTransfer(SPI_CMD_WRITE_ENABLE, 0), spiSelect(1)>>

\* The 24-bit address, most significant byte first.
SpiAddress3(address) ==
  <<spiTransfer(UlByte2(address), 0), spiTransfer(UlByte1(address), 0),
    spiTransfer(UlByte0(address), 0)>>

\* spiWritePage(address, data, numBytes); status is what the one status
\* read after the program returns.
spiWritePage(address, data, status) ==
  SpiWriteEnable
  \o <<spiSelect(0), spiTransfer(SPI_CMD_PAGE_PROGRAM, 0)>>
  \o SpiAddress3(address)
  \o [i \in 1..Len(data) |-> spiTransfer(data[i], 0)]
  \o <<spiSelect(1)>>
  \o waitForSpiReady(status)

\* offset + numBytes > pageSize in spiWriteData, in 16-bit unsigned int.
SpiCrossesPage(address, numBytes) ==
  U16(U16(UlMod(address, 256)) + numBytes) > 256

\* A write that is never split at the page boundary.
spiWriteDataUnsplit(address, data, st) == spiWritePage(address, data, st[1])

\* A split write whose second page program is sent under the write-enable
\* of the first.
spiWriteDataOneEnable(address, data, st) ==
  LET offset == U16(UlMod(address, 256))
      numBytes == Len(data)
      firstPageBytes == U16(256 - offset)
      second == spiWritePage(UlAdd(address, firstPageBytes),
                             SubSeq(data, firstPageBytes + 1, numBytes), st[2])
  IN IF SpiCrossesPage(address, numBytes)
     THEN spiWritePage(address, SubSeq(data, 1, firstPageBytes), st[1])
          \o SubSeq(second, Len(SpiWriteEnable) + 1, Len(second))
     ELSE spiWritePage(address, data, st[1])

\* spiWriteData(address, data, numBytes): the SPI traffic.  st[1], st[2]
\* are the status bytes the device returns to the polls.
spiWriteData(address, data, st) ==
  LET offset == U16(UlMod(address, 256))
      numBytes == Len(data)
      firstPageBytes == U16(256 - offset)
  IN IF SpiCrossesPage(address, numBytes)
     THEN spiWritePage(address, SubSeq(data, 1, firstPageBytes), st[1])
          \o spiWritePage(UlAdd(address, firstPageBytes),
                          SubSeq(data, firstPageBytes + 1, numBytes), st[2])
     ELSE spiWritePage(address, data, st[1])

\* What spiWriteData prints.
spiWriteDataOut(address, numBytes) ==
  IF SpiCrossesPage(address, numBytes)
  THEN <<"Warning: Write crosses page boundary!", "Write complete",
         "Write complete">>
  ELSE <<"Write complete">>

\* spiReadData(address, numBytes): fast read, 3 address bytes, a dummy.
spiReadData(address, numBytes) ==
  <<spiSelect(0), spiTransfer(SPI_CMD_FAST_READ, 0)>>
  \o SpiAddress3(address)
  \o <<spiTransfer(0, 0)>>
  \o [i \in 1..numBytes |-> spiTransfer(0, FlashByte(UlAdd(address, i - 1)))]
  \o <<spiSelect(1)>>

\* What spiReadData prints.
spiReadDataOut(address, numBytes) ==
  DumpAt(address, [i \in 1..numBytes |-> FlashByte(UlAdd(address, i - 1))])

\* spiReadID: the JEDEC identity command and the three bytes it returns.
spiReadID(id) ==
  <<spiSelect(0), spiTransfer(SPI_CMD_READ_ID, 0), spiTransfer(0, id[1]),
    spiTransfer(0, id[2]), spiTransfer(0, id[3]), spiSelect(1)>>

\* A decode that looks at the density byte without testing the family.
identifySPIFlashAnyFamily(manufacturerID, deviceID1, deviceID2) ==
  CASE manufacturerID = 1 -> <<"Spansion/Cypress ">>
    [] manufacturerID = 32 -> <<"Micron/ST ">>
    [] manufacturerID = 239 ->
         <<"Winbond ",
           CASE deviceID2 = 20 -> "W25Q80 (8Mbit)"
             [] deviceID2 = 21 -> "W25Q16 (16Mbit)"
             [] deviceID2 = 22 -> "W25Q32 (32Mbit)"
             [] deviceID2 = 23 -> "W25Q64 (64Mbit)"
             [] deviceID2 = 24 -> "W25Q128 (128Mbit)"
             [] OTHER -> "Unknown W25Q series">>
    [] manufacturerID = 194 -> <<"Macronix ">>
    [] manufacturerID = 191 -> <<"SST ">>
    [] OTHER -> <<"Unknown manufacturer">>

\* identifySPIFlash(manufacturerID, deviceID1, deviceID2): what it prints.
identifySPIFlash(manufacturerID, deviceID1, deviceID2) ==
  CASE manufacturerID = 1 -> <<"Spansion/Cypress ">>
    [] manufacturerID = 32 -> <<"Micron/ST ">>
    [] manufacturerID = 239 ->
         <<"Winbond ",
           IF deviceID1 = 64
           THEN CASE deviceID2 = 20 -> "W25Q80 (8Mbit)"
                  [] deviceID2 = 21 -> "W25Q16 (16Mbit)"
                  [] deviceID2 = 22 -> "W25Q32 (32Mbit)"
                  [] deviceID2 = 23 -> "W25Q64 (64Mbit)"
                  [] deviceID2 = 24 -> "W25Q128 (128Mbit)"
                  [] OTHER -> "Unknown W25Q series"
           ELSE "Unknown model">>
    [] manufacturerID = 194 -> <<"Macronix ">>
    [] manufacturerID = 191 -> <<"SST ">>
    [] OTHER -> <<"Unknown manufacturer">>

\* spiErase up to the polling loop: write enable, then the erase command.
spiEraseHead(option, address) ==
  SpiWriteEnable
  \o <<spiSelect(0)>>
  \o (CASE option = "1" ->
             <<spiTransfer(SPI_CMD_SECTOR_ERASE, 0)>> \o SpiAddress3(address)
        [] option = "2" ->
             <<spiTransfer(SPI_CMD_BLOCK_ERASE_64K, 0)>> \o SpiAddress3(address)
        [] option = "3" -> <<spiTransfer(SPI_CMD_CHIP_ERASE, 0)>>
        [] OTHER -> <<>>)
  \o <<spiSelect(1)>>

\* spiReadStatus: the status frame, and the decoded fields it prints.
spiReadStatus(status) ==
  <<spiSelect(0), spiTransfer(SPI_CMD_READ_STATUS, 0),
    spiTransfer(0, status), spiSelect(1)>>

spiReadStatusOut(status) ==
  <<IF status % 2 = 1 THEN "Busy: Yes" ELSE "Busy: No",
    IF (status \div 2) % 2 = 1 THEN "Write Enable Latch: Enabled"
                               ELSE "Write Enable Latch: Disabled",
    IF (status \div 128) % 2 = 1 THEN "Write Protect Enable: Yes"
                                 ELSE "Write Protect Enable: No">>

(* ------------------------------ messages ------------------------------ *)

\* A line the sketch prints: its text and the number printed with it.
Msg(text) == <<text, 0>>
MsgN(text, n) == <<text, n>>

(* ------------------------------ I2C bus ------------------------------- *)

\* A transaction on the two-wire bus, from beginTransmission to
\* endTransmission or one requestFrom: the 7-bit device address it is sent
\* to, the address-phase bytes and data bytes written (or the bytes read),
\* the count requested, and whether the device acknowledged.  cur is the
\* driver's currentAddr for the transaction.
\*   "probe"   an empty write, to see whether the device answers
\*   "chunk"   i2cWriteData: address phase and data bytes
\*   "setptr"  i2cReadData / i2cReadStatus: address phase alone
\*   "request" i2cReadData: requestFrom
I2cTxn(k, dev, abytes, data, n, ack, cur) ==
  [k |-> k, dev |-> dev, abytes |-> abytes, data |-> data, n |-> n,
   ack |-> ack, cur |-> cur]

\* The device acknowledges the first ackN transactions of a driver call.
AckAll == 2 * 65536
Acked(t, ackN) == t <= ackN

\* What the EEPROM holds at an address (the device model is read-only).
EepromByte(address) == U8(65 + address[2])

\* An address phase whose width follows the address of the chunk.
I2cAddressPhasePerChunk(use16bitAddr, currentAddr) ==
  IF UlGreater(currentAddr, 255)
  THEN <<UlByte1(currentAddr), UlByte0(currentAddr)>>
  ELSE <<UlByte0(currentAddr)>>

\* The address phase: MSB only with 16-bit addressing, then LSB.
I2cAddressPhase(use16bitAddr, currentAddr) ==
  IF use16bitAddr THEN <<UlByte1(currentAddr), UlByte0(currentAddr)>>
  ELSE <<UlByte0(currentAddr)>>

\* The presence probe sent to the default address, not the one set.
I2cProbeDefault(ackN) ==
  I2cTxn("probe", DefaultI2CAddress, <<>>, <<>>, 0, Acked(1, ackN), ULong(0))

\* Wire.beginTransmission(i2cAddress); error = Wire.endTransmission()
I2cProbe(ackN) ==
  I2cTxn("probe", i2cAddress, <<>>, <<>>, 0, Acked(1, ackN), ULong(0))

\* A write loop that sends all that is left in one transaction.
I2cWriteChunksUnsplit(address, data, bytesWritten, t, ackN) ==
  IF ~(bytesWritten < Len(data)) THEN <<>>
  ELSE <<I2cTxn("chunk", i2cAddress,
                I2cAddressPhase(UlGreater(address, 255),
                                UlAdd(address, bytesWritten)),
                SubSeq(data, bytesWritten + 1, Len(data)),
                0, Acked(t, ackN), UlAdd(address, bytesWritten))>>

\* The while loop of i2cWriteData from bytesWritten on; t is the index of
\* the next transaction of the call.
RECURSIVE I2cWriteChunks(_, _, _, _, _)
I2cWriteChunks(address, data, bytesWritten, t, ackN) ==
  LET numBytes == Len(data)
      use16bitAddr == UlGreater(address, 255)
      pageSize == 8
      currentAddr == UlAdd(address, bytesWritten)
      pageOffset == U16(UlMod(currentAddr, pageSize))
      bytesToWrite == Min(U16(pageSize - pageOffset),
                          U16(numBytes - bytesWritten))
  IN IF ~(bytesWritten < numBytes) THEN <<>>
     ELSE <<I2cTxn("chunk", i2cAddress,
                   I2cAddressPhase(use16bitAddr, currentAddr),
                   SubSeq(data, bytesWritten + 1, bytesWritten + bytesToWrite),
                   0, Acked(t, ackN), currentAddr)>>
          \o I2cWriteChunks(address, data, U16(bytesWritten + bytesToWrite),
                            t + 1, ackN)

\* i2cWriteData(address, data, numBytes): the transactions of the call.
i2cWriteData(address, data, ackN) ==
  IF ~Acked(1, ackN) THEN <<I2cProbe(ackN)>>
  ELSE <<I2cProbe(ackN)>> \o I2cWriteChunks(address, data, 0, 2, ackN)

\* What i2cWriteData prints.
i2cWriteDataOut(ackN) ==
  IF ~Acked(1, ackN) THEN <<MsgN("Error: Device not responding", i2cAddress)>>
  ELSE <<Msg("Write complete")>>

\* The for loop of i2cReadData from i on: per chunk of up to 16 bytes an
\* address phase, then a read request.
RECURSIVE I2cReadChunks(_, _, _, _, _)
I2cReadChunks(address, numBytes, i, t, ackN) ==
  LET use16bitAddr == UlGreater(address, 255)
      chunkSize == 16
      bytesToRead == Min(chunkSize, U16(numBytes - i))
      currentAddr == UlAdd(address, i)
  IN IF ~(i < numBytes) THEN <<>>
     ELSE <<I2cTxn("setptr", i2cAddress,
                   I2cAddressPhase(use16bitAddr, currentAddr), <<>>, 0,
                   Acked(t, ackN), currentAddr),
            I2cTxn("request", i2cAddress, <<>>,
                   IF Acked(t + 1, ackN)
                   THEN [j \in 1..bytesToRead |->
                           EepromByte(UlAdd(currentAddr, j - 1))]
                   ELSE <<>>,
                   bytesToRead, Acked(t + 1, ackN), currentAddr)>>
          \o I2cReadChunks(address, numBytes, U16(i + chunkSize), t + 2, ackN)

\* A read that goes on to its chunks whatever the probe found.
i2cReadDataUnprobed(address, numBytes, ackN) ==
  <<I2cProbe(ackN)>> \o I2cReadChunks(address, numBytes, 0, 2, ackN)

\* i2cReadData(address, numBytes): the transactions of the call.
i2cReadData(address, numBytes, ackN) ==
  IF ~Acked(1, ackN) THEN <<I2cProbe(ackN)>>
  ELSE <<I2cProbe(ackN)>> \o I2cReadChunks(address, numBytes, 0, 2, ackN)

\* What i2cReadData prints: a row per chunk of 16, numbered with the
\* address of the chunk.  A request the device does not answer leaves the
\* buffer as it was, never written: junk stands for what it holds.
i2cReadDataOut(address, numBytes, ackN, junk) ==
  IF ~Acked(1, ackN) THEN <<MsgN("Error: Device not responding", i2cAddress)>>
  ELSE LET IsRequest(t) == t.k = "request"
           reqs == SelectSeq(I2cReadChunks(address, numBytes, 0, 2, ackN),
                             IsRequest)
       IN [k \in 1..Len(reqs) |->
             DumpRow(reqs[k].cur,
                     IF reqs[k].ack THEN reqs[k].data
                     ELSE [j \in 1..reqs[k].n |-> junk])]

\* i2cReadStatus: a probe and, if it is answered, a write of address 0.
i2cReadStatus(ackN) ==
  IF ~Acked(1, ackN) THEN <<I2cProbe(ackN)>>
  ELSE <<I2cProbe(ackN),
         I2cTxn("setptr", i2cAddress, <<0>>, <<>>, 0, Acked(2, ackN),
                ULong(0))>>

i2cReadStatusOut(ackN) ==
  IF ~Acked(1, ackN) THEN <<Msg("Device present: No")>>
  ELSE <<Msg("Device present: Yes"),
         IF Acked(2, ackN) THEN Msg("Device ready: Yes")
         ELSE Msg("Device ready: No")>>

\* A scan that stops before 0x77.
i2cDetectHalfOpen(present) ==
  [k \in 1..(119 - 8) |->
     I2cTxn("probe", 8 + k - 1, <<>>, <<>>, 0, (8 + k - 1) \in present,
            ULong(0))]

\* i2cDetect: a probe of every address from 0x08 up to, not including,
\* 0x78; present is the set of addresses at which a device answers.
i2cDetect(present) ==
  [k \in 1..(120 - 8) |->
     I2cTxn("probe", 8 + k - 1, <<>>, <<>>, 0, (8 + k - 1) \in present,
            ULong(0))]

i2cDetectOut(present) ==
  LET found == Ascending({addr \in 8..(120 - 1) : addr \in present})
  IN <<Msg("Scanning I2C bus for devices...")>>
     \o (IF Len(found) = 0 THEN <<Msg("No I2C devices found!")>>
         ELSE [k \in 1..Len(found) |->
                 IF found[k] >= 80 /\ found[k] <= 87
                 THEN MsgN("Device found (likely EEPROM)", found[k])
                 ELSE MsgN("Device found", found[k])])

\* The buffer of 0xFF that i2cErase writes.
eraseData == <<255, 255, 255, 255, 255, 255, 255, 255>>

\* Number of bytes i2cErase fills: 256 for a sector, 4096 for a block,
\* 32 * 1024 for the chip (the product exceeds a 16-bit int; avr-gcc
\* folds it to the unsigned value 32768).
I2cEraseSize(option) ==
  CASE option = "3" -> 32768
    [] option = "1" -> 256
    [] OTHER -> 4096

\* The device answers the calls of i2cWriteData before call goneAt of an
\* erase and none from it on.
I2cCallAck(j, goneAt) == IF j < goneAt THEN AckAll ELSE 0

\* Calls lo..hi of i2cWriteData made by the loop of i2cErase, in order
\* (call j writes eraseData at base + 8 * j).
RECURSIVE I2cEraseCalls(_, _, _, _)
I2cEraseCalls(base, lo, hi, goneAt) ==
  IF lo > hi THEN <<>>
  ELSE IF lo = hi
       THEN i2cWriteData(UlAdd(base, U16(8 * lo)), eraseData,
                         I2cCallAck(lo, goneAt))
       ELSE LET mid == (lo + hi) \div 2
            IN I2cEraseCalls(base, lo, mid, goneAt)
               \o I2cEraseCalls(base, mid + 1, hi, goneAt)

RECURSIVE I2cEraseCallsOut(_, _, _)
I2cEraseCallsOut(lo, hi, goneAt) ==
  IF lo > hi THEN <<>>
  ELSE IF lo = hi THEN i2cWriteDataOut(I2cCallAck(lo, goneAt))
       ELSE LET mid == (lo + hi) \div 2
            IN I2cEraseCallsOut(lo, mid, goneAt)
               \o I2cEraseCallsOut(mid + 1, hi, goneAt)

\* i2cErase(option, address): the chip erase fills from address 0.
i2cErase(option, address, goneAt) ==
  I2cEraseCalls(IF option = "3" THEN ULong(0) ELSE address,
                0, (I2cEraseSize(option) \div 8) - 1, goneAt)

i2cEraseOut(option, goneAt) ==
  <<Msg(IF option = "3" THEN "Erasing EEPROM" ELSE "Erasing")>>
  \o I2cEraseCallsOut(0, (I2cEraseSize(option) \div 8) - 1, goneAt)
  \o <<Msg("Erase complete")>>

(* ---------------------------- NAND driver ----------------------------- *)

\* A reset that strobes the command without selecting the chip.
nandResetHeadUnselected == NandCommand(NAND_CMD_RESET)

\* nandReset up to its wait: select, RESET under command latch.
nandResetHead == <<digitalWrite("CE", 0)>> \o NandCommand(NAND_CMD_RESET)

\* A READ ID that leaves the chip selected.
nandReadIDSelected ==
  <<digitalWrite("CE", 0)>>
  \o NandCommand(NAND_CMD_READ_ID)
  \o <<digitalWrite("ALE", 1), nandWriteByte(0), digitalWrite("ALE", 0)>>
  \o [k \in 1..5 |-> nandReadByte(DevIdentity[k])]

\* nandReadID: READ ID, one address byte 0x00, five bytes read.
nandReadID ==
  <<digitalWrite("CE", 0)>>
  \o NandCommand(NAND_CMD_READ_ID)
  \o <<digitalWrite("ALE", 1), nandWriteByte(0), digitalWrite("ALE", 0)>>
  \o [k \in 1..5 |-> nandReadByte(DevIdentity[k])]
  \o <<digitalWrite("CE", 1)>>

nandReadIDOut ==
  <<MsgN("Manufacturer ID", DevIdentity[1]), MsgN("Device ID", DevIdentity[2]),
    MsgN("Third ID byte", DevIdentity[3]), MsgN("Fourth ID byte", DevIdentity[4]),
    MsgN("Fifth ID byte", DevIdentity[5])>>

\* A read that starts one column further than asked.
nandReadDataHeadNextColumn(address) ==
  <<digitalWrite("CE", 0)>>
  \o NandCommand(NAND_CMD_READ)
  \o NandAddress5(UlAdd(address, 1))
  \o NandCommand(NAND_CMD_READ_CONFIRM)

\* nandReadData up to its wait: READ, five address bytes, READ CONFIRM.
nandReadDataHead(address) ==
  <<digitalWrite("CE", 0)>>
  \o NandCommand(NAND_CMD_READ)
  \o NandAddress5(address)
  \o NandCommand(NAND_CMD_READ_CONFIRM)

\* The boundary test with the offset in the page left out.
NandCrossesPageNoOffset(address, numBytes) == numBytes > 512

\* offset + numBytes > pageSize in nandWriteData, in 16-bit unsigned int.
NandCrossesPage(address, numBytes) ==
  U16(U16(UlMod(address, 512)) + numBytes) > 512

\* nandWriteData up to its wait: PROGRAM, five address bytes, the data
\* bytes, PROGRAM CONFIRM.
nandWriteDataHead(address, data) ==
  <<digitalWrite("CE", 0)>>
  \o NandCommand(NAND_CMD_PROGRAM)
  \o NandAddress5(address)
  \o [i \in 1..Len(data) |-> nandWriteByte(data[i])]
  \o NandCommand(NAND_CMD_PROGRAM_CONFIRM)

\* nandErase up to its wait: ERASE, for options '1' and '2' the three
\* bytes of the block index, ERASE CONFIRM.
nandEraseHead(option, address) ==
  LET blockSize == 16 * 1024
      block == U16(UlDiv(address, blockSize))
  IN <<digitalWrite("CE", 0)>>
     \o NandCommand(NAND_CMD_ERASE)
     \o (IF option = "1" \/ option = "2"
         THEN <<digitalWrite("ALE", 1),
                nandWriteByte(Byte0(block)),
                nandWriteByte(Byte1(block)),
                nandWriteByte(Shr16(block)),
                digitalWrite("ALE", 0)>>
         ELSE <<>>)
     \o NandCommand(NAND_CMD_ERASE_CONFIRM)

\* An end that deselects the chip before it asks for the status.
nandStatusTailDeselected(status) ==
  <<digitalWrite("CE", 1)>>
  \o NandCommand(NAND_CMD_READ_STATUS)
  \o <<nandReadByte(status)>>

\* The end of nandWriteData and nandErase: READ STATUS, one byte, deselect.
nandStatusTail(status) ==
  NandCommand(NAND_CMD_READ_STATUS)
  \o <<nandReadByte(status), digitalWrite("CE", 1)>>

\* nandReadStatus
nandReadStatus(status) == <<digitalWrite("CE", 0)>> \o nandStatusTail(status)

nandReadStatusOut(status) ==
  <<MsgN("Status", status),
    IF status % 2 = 1 THEN Msg("Program/Erase Failed: Yes")
                      ELSE Msg("Program/Erase Failed: No"),
    IF (status \div 64) % 2 = 1 THEN Msg("Ready/Busy: Ready")
                                ELSE Msg("Ready/Busy: Busy"),
    IF (status \div 128) % 2 = 1 THEN Msg("Write Protected: Yes")
                                 ELSE Msg("Write Protected: No")>>

(* ------------------------- effects of a handler ----------------------- *)

\* The driver function a handler is suspended in, with its locals.
NoFrame == [fn |-> "none", numBytes |-> 0, polls |-> 0]
Frame(fn, numBytes) == [fn |-> fn, numBytes |-> numBytes, polls |-> 0]

\* What a handler (or the part of it up to a polling loop) does: the
\* lines printed, the traffic on the three buses, the device it leaves,
\* and where it stands afterwards.
Effect(o, nl, sl, il, dev, to, fr) ==
  [out |-> o, nand |-> nl, spi |-> sl, i2c |-> il, dev |-> dev,
   pc |-> to, frame |-> fr]

Returns(o, nl, sl, il) == Effect(o, nl, sl, il, nandDev, "idle", NoFrame)

Apply(e) ==
  \E r \in {e} :
    /\ out' = r.out
    /\ nandLog' = r.nand
    /\ spiLog' = r.spi
    /\ i2cLog' = r.i2c
    /\ nandDev' = r.dev
    /\ pc' = r.pc
    /\ frame' = r.frame
    /\ elapsed' = 0
    /\ nandCE' = LevelAfter(r.nand, "CE", nandCE)
    /\ nandCLE' = LevelAfter(r.nand, "CLE", nandCLE)
    /\ nandALE' = LevelAfter(r.nand, "ALE", nandALE)

\* The command read by loop() and the values its handler reads after it.
Request(cmd, address, numBytes, data, option, value) ==
  [cmd |-> cmd, address |-> address, numBytes |-> numBytes, data |-> data,
   option |-> option, value |-> value]

Command(cmd) == Request(cmd, ULong(0), 0, <<>>, "", 0)

\* The check of MEM_UNKNOWN left out of a handler.
NoTechnologyUnchecked == FALSE

\* if (currentMemoryType == MEM_UNKNOWN) { println(...); return; }
NoTechnology == currentMemoryType = "MEM_UNKNOWN"

PleaseSelect == Returns(<<Msg("Please select memory type first!")>>, <<>>, <<>>, <<>>)

\* default: Serial.println(F("Unknown memory type!"))
UnknownType(o) == Returns(o \o <<Msg("Unknown memory type!")>>, <<>>, <<>>, <<>>)

(* ------------------------------ handlers ------------------------------ *)

\* setMemoryType(type)
setMemoryType(type) ==
  CASE type = "MEM_NAND_FLASH" ->
         Effect(<<Msg("NAND Flash mode selected")>>, nandResetHead, <<>>, <<>>,
                nandDev, "waitForNandReady", Frame("nandReset", 0))
    [] type = "MEM_SPI_FLASH" ->
         Returns(<<Msg("SPI Flash mode selected")>>, <<>>, <<>>, <<>>)
    [] type = "MEM_I2C_EEPROM" ->
         Returns(<<Msg("I2C EEPROM mode selected"),
                   MsgN("Current I2C address", i2cAddress)>>, <<>>, <<>>, <<>>)
    [] OTHER -> UnknownType(<<>>)

\* readDeviceID(); id is the JEDEC identity the SPI flash returns, present
\* the addresses that answer on the two-wire bus.
readDeviceID(id, present) ==
  IF NoTechnology THEN PleaseSelect
  ELSE LET o == <<Msg("Reading device ID...")>>
       IN CASE currentMemoryType = "MEM_NAND_FLASH" ->
                 Returns(o \o nandReadIDOut, nandReadID, <<>>, <<>>)
            [] currentMemoryType = "MEM_SPI_FLASH" ->
                 Returns(o \o <<MsgN("Manufacturer ID", id[1]),
                                MsgN("Device ID", 256 * id[2] + id[3])>>
                           \o <<Msg("Device: ")>>
                           \o [k \in 1..Len(identifySPIFlash(id[1], id[2], id[3]))
                                 |-> Msg(identifySPIFlash(id[1], id[2], id[3])[k])],
                         <<>>, spiReadID(id), <<>>)
            [] currentMemoryType = "MEM_I2C_EEPROM" ->
                 Returns(o \o i2cDetectOut(present), <<>>, <<>>,
                         i2cDetect(present))
            [] OTHER -> UnknownType(o)

\* readData(); startAddr and numBytes are the values typed.
readData(startAddr, typed, ackN, junk) ==
  IF NoTechnology THEN PleaseSelect
  ELSE LET numBytes == IF typed > 256 THEN 256 ELSE typed
           o == IF typed > 256
                THEN <<Msg("Warning: Limiting to 256 bytes"), Msg("Reading")>>
                ELSE <<Msg("Reading")>>
       IN CASE currentMemoryType = "MEM_NAND_FLASH" ->
                 Effect(o, nandReadDataHead(startAddr), <<>>, <<>>, nandDev,
                        "waitForNandReady", Frame("nandReadData", numBytes))
            [] currentMemoryType = "MEM_SPI_FLASH" ->
                 Returns(o \o spiReadDataOut(startAddr, numBytes), <<>>,
                         spiReadData(startAddr, numBytes), <<>>)
            [] currentMemoryType = "MEM_I2C_EEPROM" ->
                 Returns(o \o i2cReadDataOut(startAddr, numBytes, ackN, junk),
                         <<>>, <<>>,
                         i2cReadData(startAddr, numBytes, ackN))
            [] OTHER -> UnknownType(o)

\* nandWriteData up to its wait; ok is whether the device programs.
nandWriteData(address, data, ok) ==
  IF NandCrossesPage(address, Len(data))
  THEN Returns(<<Msg("Error: Write crosses page boundary!")>>, <<>>, <<>>, <<>>)
  ELSE Effect(<<>>, nandWriteDataHead(address, data), <<>>, <<>>,
              DevProgram(nandWriteDataHead(address, data), ok),
              "waitForNandReady", Frame("nandWriteData", Len(data)))

\* An effect with lines printed before it.
After(o, e) == [e EXCEPT !.out = o \o e.out]

\* writeData(); startAddr and data are the values typed (at most 32 bytes
\* are kept).
writeData(startAddr, data, ok, st, ackN) ==
  IF NoTechnology THEN PleaseSelect
  ELSE LET o == <<Msg("Writing")>>
       IN CASE currentMemoryType = "MEM_NAND_FLASH" ->
                 After(o, nandWriteData(startAddr, data, ok))
            [] currentMemoryType = "MEM_SPI_FLASH" ->
                 Returns(o \o [k \in 1..Len(spiWriteDataOut(startAddr, Len(data)))
                                 |-> Msg(spiWriteDataOut(startAddr, Len(data))[k])],
                         <<>>, spiWriteData(startAddr, data, st), <<>>)
            [] currentMemoryType = "MEM_I2C_EEPROM" ->
                 Returns(o \o i2cWriteDataOut(ackN), <<>>, <<>>,
                         i2cWriteData(startAddr, data, ackN))
            [] OTHER -> UnknownType(o)

\* eraseMemory(); option is the character typed, typed the address typed
\* for options '1' and '2', confirmed whether "YES" was typed for '3'.
eraseMemory(option, typed, confirmed, ok, goneAt) ==
  IF NoTechnology THEN PleaseSelect
  ELSE LET address == IF option = "1" \/ option = "2" THEN typed ELSE ULong(0)
           o == CASE option = "1" -> <<Msg("Erasing sector at")>>
                  [] option = "2" -> <<Msg("Erasing block at")>>
                  [] OTHER -> <<Msg("Erasing entire chip...")>>
       IN IF option \notin {"1", "2", "3"}
          THEN Returns(<<Msg("Invalid option")>>, <<>>, <<>>, <<>>)
          ELSE IF option = "3" /\ ~confirmed
          THEN Returns(<<Msg("Erase aborted!")>>, <<>>, <<>>, <<>>)
          ELSE CASE currentMemoryType = "MEM_NAND_FLASH" ->
                      Effect(o, nandEraseHead(option, address), <<>>, <<>>,
                             DevErase(nandEraseHead(option, address), ok),
                             "waitForNandReady", Frame("nandErase", 0))
                 [] currentMemoryType = "MEM_SPI_FLASH" ->
                      Effect(o \o <<Msg("Erasing")>>, <<>>,
                             spiEraseHead(option, address), <<>>, nandDev,
                             "spiErasePoll", Frame("spiErase", 0))
                 [] currentMemoryType = "MEM_I2C_EEPROM" ->
                      Returns(o \o i2cEraseOut(option, goneAt), <<>>, <<>>,
                              i2cErase(option, address, goneAt))
                 [] OTHER -> UnknownType(o)

\* readStatus(); status is the byte the SPI flash returns.
readStatus(status, ackN) ==
  IF NoTechnology THEN PleaseSelect
  ELSE LET o == <<Msg("Reading status register...")>>
       IN CASE currentMemoryType = "MEM_NAND_FLASH" ->
                 Returns(o \o nandReadStatusOut(DevStatus(FALSE)),
                         nandReadStatus(DevStatus(FALSE)), <<>>, <<>>)
            [] currentMemoryType = "MEM_SPI_FLASH" ->
                 Returns(o \o [k \in 1..3 |-> Msg(spiReadStatusOut(status)[k])],
                         <<>>, spiReadStatus(status), <<>>)
            [] currentMemoryType = "MEM_I2C_EEPROM" ->
                 Returns(o \o i2cReadStatusOut(ackN), <<>>, <<>>,
                         i2cReadStatus(ackN))
            [] OTHER -> UnknownType(o)

\* The range test with its upper limit one too high.
ValidI2CAddressTo78(newAddress) ==
  newAddress >= I2C_ADDR_MIN /\ newAddress <= I2C_ADDR_MAX + 1

\* The test of setI2CAddress on the byte it parsed.
ValidI2CAddress(newAddress) ==
  newAddress >= I2C_ADDR_MIN /\ newAddress <= I2C_ADDR_MAX

\* setI2CAddress(): the value of i2cAddress after it; typed is the
\* number typed, which the assignment to byte truncates.
setI2CAddress(typed) ==
  LET newAddress == U8(typed)
  IN IF ValidI2CAddress(newAddress) THEN newAddress ELSE i2cAddress

setI2CAddressOut(typed) ==
  IF ValidI2CAddress(U8(typed))
  THEN <<MsgN("I2C address set to", U8(typed))>>
  ELSE <<Msg("Invalid I2C address! Valid range is 0x08-0x77")>>

(* ------------------------------- inputs ------------------------------- *)

\* What is typed and what the devices answer is drawn from small sets.  A
\* profile names the sets: "session" has every command with few values,
\* "nand", "spi" and "eeprom" stay with one technology and have the
\* values at which its driver changes behaviour.

\* The profiles with few values: "session", and "wait", which stays with
\* the NAND flash.
Few(p) == p \in {"session", "wait"}

\* The data of a write command: n bytes counting up from b.
Ramp(b, n) == [i \in 1..n |-> U8(b + i - 1)]

DataSeqs(p) ==
  IF NoTechnology THEN {<<>>}
  ELSE IF Few(p) THEN {Ramp(17, MaxLen)}
  ELSE {Ramp(b, n) : b \in {17, 161}, n \in 0..MaxLen}

\* Technologies that can be selected.
Selections(p) ==
  CASE p \in {"nand", "wait"} -> {"1"}
    [] p = "spi" -> {"2"}
    [] p = "eeprom" -> {"3"}
    [] OTHER -> {"1", "2", "3"}

\* Addresses typed for a read or a write: the start of a page, the last
\* bytes of one, and an address whose upper bits the driver's arithmetic
\* loses or wraps.
Addresses(p) ==
  CASE currentMemoryType = "MEM_NAND_FLASH" ->
         IF Few(p) THEN {ULong(508)}
         ELSE {ULong(0), ULong(510), ULong(33555454)}
    [] currentMemoryType = "MEM_SPI_FLASH" ->
         IF Few(p) THEN {ULong(254)}
         ELSE {ULong(0), ULong(254), ULong(16777214), <<65535, 65534>>}
    [] currentMemoryType = "MEM_I2C_EEPROM" ->
         IF Few(p) THEN {ULong(254)}
         ELSE {ULong(0), ULong(254), ULong(262), <<65535, 65534>>}
    [] OTHER -> {ULong(0)}

\* Byte counts typed for a read.
ReadLengths(p) ==
  CASE currentMemoryType = "MEM_NAND_FLASH" ->
         IF Few(p) THEN {MaxLen} ELSE 0..MaxLen
    [] currentMemoryType = "MEM_SPI_FLASH" ->
         IF Few(p) THEN {2} ELSE {0, 2}
    [] currentMemoryType = "MEM_I2C_EEPROM" ->
         IF Few(p) THEN {17} ELSE {0, 1, 17}
    [] OTHER -> {0}

\* Erase options typed, with the address typed for '1' and '2' and
\* whether "YES" was typed for '3'.  Block and chip erase of the EEPROM
\* are 512 and 4096 calls of i2cWriteData; here the EEPROM is erased by
\* sector.
EraseInputs(p) ==
  LET addrs ==
        CASE currentMemoryType = "MEM_NAND_FLASH" ->
               IF Few(p) THEN {ULong(20000)}
               ELSE {ULong(0), ULong(20000), ULong(1073758208)}
          [] currentMemoryType = "MEM_SPI_FLASH" ->
               IF Few(p) THEN {ULong(1193046)}
               ELSE {ULong(0), ULong(1193046)}
          [] currentMemoryType = "MEM_I2C_EEPROM" ->
               IF Few(p) THEN {ULong(254)}
               ELSE {ULong(0), ULong(254)}
          [] OTHER -> {ULong(0)}
      sector == {<<"1", a, FALSE>> : a \in addrs}
      block == {<<"2", a, FALSE>> : a \in addrs}
      chip == {<<"3", ULong(0), TRUE>>}
      refused == {<<"3", ULong(0), FALSE>>, <<"x", ULong(0), FALSE>>}
  IN CASE NoTechnology -> {<<"1", ULong(0), FALSE>>}
       [] currentMemoryType = "MEM_I2C_EEPROM" -> sector \cup refused
       [] OTHER -> sector \cup block \cup chip \cup refused

\* Values typed for the I2C address (0x161 is truncated to 0x61).
I2cAddressInputs == {5, 7, 8, 97, 119, 120, 353}

\* Whether the NAND device manages a program or an erase.
OkChoices == IF currentMemoryType = "MEM_NAND_FLASH" THEN BOOLEAN ELSE {TRUE}

\* Transactions of a call that the EEPROM acknowledges; calls of an erase
\* that it answers.
AckChoices ==
  IF currentMemoryType = "MEM_I2C_EEPROM" THEN {0, 1, AckAll} ELSE {AckAll}

\* Status bytes of the SPI flash: idle, or busy with the write latch set.
SpiStatuses == {0, 3}

SpiStatusChoices ==
  IF currentMemoryType = "MEM_SPI_FLASH" THEN SpiStatuses ELSE {0}

\* JEDEC identities of the SPI flash: every density byte around the table
\* under Winbond, in and out of the 0x40 family, and the other vendors.
SpiIds ==
  IF currentMemoryType = "MEM_SPI_FLASH"
  THEN {<<239, d1, d2>> : d1 \in {0, 48, 64},
                          d2 \in {0, 19, 20, 21, 22, 23, 24, 25, 153}}
       \cup {<<m, 64, 24>> : m \in {0, 1, 32, 191, 194, 238, 255}}
  ELSE {<<0, 0, 0>>}

\* What a buffer that was never written may hold.
JunkChoices == IF currentMemoryType = "MEM_I2C_EEPROM" THEN {0, 255} ELSE {0}

\* Sets of addresses that answer a bus scan.
PresentSets ==
  IF currentMemoryType = "MEM_I2C_EEPROM"
  THEN {{}, {80}, {60, 87, 119}}
  ELSE {{}}

(* ------------------------------- actions ------------------------------ *)

Init ==
  /\ currentMemoryType = "MEM_UNKNOWN"
  /\ i2cAddress = DefaultI2CAddress
  /\ shift16 \in {"zero", "same"}
  /\ pc = "idle"
  /\ frame = NoFrame
  /\ elapsed = 0
  /\ req = Command("")
  /\ out = <<>>
  /\ nandCE = 1 /\ nandCLE = 0 /\ nandALE = 0
  /\ nandLog = <<>> /\ spiLog = <<>> /\ i2cLog = <<>>
  /\ nandDev = NoProgram
  /\ expect = <<>>

\* case '1': setMemoryType(MEM_NAND_FLASH); '2': SPI; '3': I2C
TypeOf(c) ==
  CASE c = "1" -> "MEM_NAND_FLASH"
    [] c = "2" -> "MEM_SPI_FLASH"
    [] OTHER -> "MEM_I2C_EEPROM"

\* A selection that puts the I2C address back to its default.
SetMemoryTypeResetting(p) ==
  \E c \in Selections(p) :
    /\ pc = "idle"
    /\ req' = Command(c)
    /\ currentMemoryType' = TypeOf(c)
    /\ Apply(setMemoryType(TypeOf(c)))
    /\ expect' = <<>>
    /\ i2cAddress' = DefaultI2CAddress
    /\ UNCHANGED shift16

\* handleCommand('1' | '2' | '3')
SetMemoryType(p) ==
  \E c \in Selections(p) :
    /\ pc = "idle"
    /\ req' = Command(c)
    /\ currentMemoryType' = TypeOf(c)
    /\ Apply(setMemoryType(TypeOf(c)))
    /\ expect' = <<>>
    /\ UNCHANGED <<i2cAddress, shift16>>

\* handleCommand('i')
ReadDeviceID ==
  \E id \in SpiIds, present \in PresentSets :
    /\ pc = "idle"
    /\ req' = Command("i")
    /\ Apply(readDeviceID(id, present))
    /\ expect' = <<>>
    /\ UNCHANGED <<currentMemoryType, i2cAddress, shift16>>

\* The data the read being started must return if it follows a write of
\* that many bytes to the same address which the device reported done.
RoundTrip(startAddr, numBytes) ==
  IF /\ currentMemoryType = "MEM_NAND_FLASH"
     /\ req.cmd = "w"
     /\ req.address = startAddr
     /\ Len(req.data) = numBytes
     /\ Len(out) > 0
     /\ out[Len(out)] = Msg("Program successful")
  THEN <<req.data>>
  ELSE <<>>

\* handleCommand('r')
ReadData(p) ==
  \E startAddr \in Addresses(p), numBytes \in ReadLengths(p),
     ackN \in AckChoices, junk \in JunkChoices :
    /\ pc = "idle"
    /\ req' = IF NoTechnology THEN Command("r")
              ELSE Request("r", startAddr, numBytes, <<>>, "", 0)
    /\ Apply(readData(startAddr, numBytes, ackN, junk))
    /\ expect' = RoundTrip(startAddr, numBytes)
    /\ UNCHANGED <<currentMemoryType, i2cAddress, shift16>>

\* handleCommand('w')
WriteData(p) ==
  \E startAddr \in Addresses(p), data \in DataSeqs(p), ok \in OkChoices,
     st \in [1..2 -> SpiStatusChoices], ackN \in AckChoices :
    /\ pc = "idle"
    /\ req' = IF NoTechnology THEN Command("w")
              ELSE Request("w", startAddr, Len(data), data, "", 0)
    /\ Apply(writeData(startAddr, data, ok, st, ackN))
    /\ expect' = <<>>
    /\ UNCHANGED <<currentMemoryType, i2cAddress, shift16>>

\* handleCommand('e')
EraseMemory(p) ==
  \E in \in EraseInputs(p), ok \in OkChoices, goneAt \in AckChoices :
    /\ pc = "idle"
    /\ req' = IF NoTechnology THEN Command("e")
              ELSE Request("e", in[2], 0, <<>>, in[1], IF in[3] THEN 1 ELSE 0)
    /\ Apply(eraseMemory(in[1], in[2], in[3], ok, goneAt))
    /\ expect' = <<>>
    /\ UNCHANGED <<currentMemoryType, i2cAddress, shift16>>

\* A status command that puts the I2C address back to its default.
ReadStatusResetting ==
  \E status \in SpiStatusChoices, ackN \in AckChoices :
    /\ pc = "idle"
    /\ req' = Command("s")
    /\ Apply(readStatus(status, ackN))
    /\ expect' = <<>>
    /\ i2cAddress' = DefaultI2CAddress
    /\ UNCHANGED <<currentMemoryType, shift16>>

\* handleCommand('s')
ReadStatus ==
  \E status \in SpiStatusChoices, ackN \in AckChoices :
    /\ pc = "idle"
    /\ req' = Command("s")
    /\ Apply(readStatus(status, ackN))
    /\ expect' = <<>>
    /\ UNCHANGED <<currentMemoryType, i2cAddress, shift16>>

\* handleCommand('a')
SetI2CAddress ==
  \E typed \in I2cAddressInputs :
    /\ pc = "idle"
    /\ req' = Request("a", ULong(0), 0, <<>>, "", typed)
    /\ i2cAddress' = setI2CAddress(typed)
    /\ Apply(Returns(setI2CAddressOut(typed), <<>>, <<>>, <<>>))
    /\ expect' = <<>>
    /\ UNCHANGED <<currentMemoryType, shift16>>

\* The rest of the driver function suspended in waitForNandReady, once the
\* wait has returned (timedOut: it gave up and printed its warning).
AfterNandWait(timedOut) ==
  LET waited == nandLog \o <<RbEvent(timedOut)>>
      o == IF timedOut THEN out \o <<Msg("Warning: NAND Flash timeout")>>
           ELSE out
      status == DevStatus(timedOut)
  IN CASE frame.fn = "nandReset" ->
            Returns(o \o <<Msg("NAND Flash reset complete")>>,
                    waited \o <<digitalWrite("CE", 1)>>, <<>>, <<>>)
       [] frame.fn = "nandReadData" ->
            Returns(o \o hexDump([k \in 1..frame.numBytes |->
                                    DevReadByte(nandLog, k - 1)]),
                    waited
                    \o [k \in 1..frame.numBytes |->
                          nandReadByte(DevReadByte(nandLog, k - 1))]
                    \o <<digitalWrite("CE", 1)>>, <<>>, <<>>)
       [] frame.fn = "nandWriteData" ->
            Returns(o \o <<IF status % 2 = 1 THEN Msg("Program failed!")
                           ELSE Msg("Program successful")>>,
                    waited \o nandStatusTail(status), <<>>, <<>>)
       [] OTHER ->
            Returns(o \o <<IF status % 2 = 1 THEN Msg("Erase failed!")
                           ELSE Msg("Erase successful")>>,
                    waited \o nandStatusTail(status), <<>>, <<>>)

\* A wait loop that tests the ready/busy pin and never the time.
NandPollNoTimeout(rb) ==
  /\ pc = "waitForNandReady"
  /\ IF rb = 1 THEN Apply(AfterNandWait(FALSE))
     ELSE UNCHANGED <<pc, frame, elapsed, out, pins, nandLog, spiLog, i2cLog,
                      nandDev>>
  /\ UNCHANGED <<currentMemoryType, i2cAddress, shift16, req, expect>>

\* One turn of the loop of waitForNandReady: rb is the level read from the
\* ready/busy pin, dt the time since the turn before.
NandPoll(rb) ==
  \E dt \in {0, TickMs} :
    /\ pc = "waitForNandReady"
    /\ IF rb = 1 THEN Apply(AfterNandWait(FALSE))
       ELSE IF elapsed + dt > NandTimeoutMs THEN Apply(AfterNandWait(TRUE))
       ELSE /\ elapsed' = elapsed + dt
            /\ UNCHANGED <<pc, frame, out, pins, nandLog, spiLog, i2cLog, nandDev>>
    /\ UNCHANGED <<currentMemoryType, i2cAddress, shift16, req, expect>>

WaitForNandReady == \E rb \in {0, 1} : NandPoll(rb)

\* The SPI log with one more status poll: the first MaxPolls polls are
\* kept, and after them only the latest.
Polled(status) ==
  IF frame.polls < MaxPolls THEN spiLog \o waitForSpiReady(status)
  ELSE SubSeq(spiLog, 1, Len(spiLog) - 4) \o waitForSpiReady(status)

\* A single status read after which the erase returns, busy or not.
SpiErasePollOnce ==
  \E status \in SpiStatuses :
    /\ pc = "spiErasePoll"
    /\ spiLog' = Polled(status)
    /\ pc' = "idle"
    /\ frame' = NoFrame
    /\ out' = out \o <<Msg("Erase complete")>>
    /\ UNCHANGED <<currentMemoryType, i2cAddress, shift16, req, expect,
                   elapsed, pins, nandLog, i2cLog, nandDev>>

\* One turn of the loop of spiErase: while (waitForSpiReady()) ...
SpiErasePoll ==
  \E status \in SpiStatuses :
    /\ pc = "spiErasePoll"
    /\ spiLog' = Polled(status)
    /\ IF status % 2 = 1
       THEN /\ frame' = [frame EXCEPT !.polls = Min(frame.polls + 1, MaxPolls)]
            /\ UNCHANGED <<pc, out>>
       ELSE /\ pc' = "idle"
            /\ frame' = NoFrame
            /\ out' = out \o <<Msg("Erase complete")>>
    /\ UNCHANGED <<currentMemoryType, i2cAddress, shift16, req, expect,
                   elapsed, pins, nandLog, i2cLog, nandDev>>

\* loop(): one command is read and handled to its end before the next.
Commands(p) ==
  \/ SetMemoryType(p)
  \/ ReadDeviceID
  \/ ReadData(p)
  \/ WriteData(p)
  \/ EraseMemory(p)
  \/ ReadStatus

\* Every command, few values.
Next ==
  \/ Commands("session")
  \/ SetI2CAddress
  \/ WaitForNandReady
  \/ SpiErasePoll

Spec == Init /\ [][Next]_vars

\* The NAND flash alone.
NextNand == Commands("nand") \/ WaitForNandReady

SpecNand == Init /\ [][NextNand]_vars

\* The NAND flash with the sketch running on: while the device holds
\* ready/busy low the loop of waitForNandReady keeps turning and millis()
\* keeps counting.  Nothing is assumed of the device.
NextNandWait == Commands("wait") \/ WaitForNandReady

FairSpecNand == Init /\ [][NextNandWait]_vars /\ WF_vars(NandPoll(0))

\* The SPI flash alone.
NextSpi == Commands("spi") \/ SpiErasePoll

SpecSpi == Init /\ [][NextSpi]_vars

\* The EEPROM alone, at any bus address.
NextEeprom == Commands("eeprom") \/ SetI2CAddress

SpecEeprom == Init /\ [][NextEeprom]_vars

(* ----------------------------- properties ----------------------------- *)

\* The commands that operate on the selected memory.
Operations == {"i", "r", "w", "e", "s"}

\* The commands that select a technology.
SelectCommands == {"1", "2", "3"}

\* C1: while no technology is selected, each of the commands i, r, w, e
\* and s only prints "Please select memory type first!" and returns: it
\* puts nothing on the NAND, SPI or two-wire bus, moves no control pin and
\* leaves currentMemoryType and i2cAddress as they were.
C1_NoTechnologySelected ==
  [][(currentMemoryType = "MEM_UNKNOWN" /\ req'.cmd \in Operations) =>
       /\ out' = <<Msg("Please select memory type first!")>>
       /\ pc' = "idle"
       /\ nandLog' = <<>> /\ spiLog' = <<>> /\ i2cLog' = <<>>
       /\ pins' = pins
       /\ globals' = globals]_vars

\* An erase was asked for with nothing selected, after the I2C address
\* had been set to 0x61.
C1_Witness ==
  /\ currentMemoryType = "MEM_UNKNOWN"
  /\ req.cmd = "e"
  /\ out = <<Msg("Please select memory type first!")>>
  /\ i2cAddress = 97

\* C2: i2cAddress is 0x50 at the start and lies in 0x08..0x77 in every
\* state; a setI2CAddress whose byte is outside 0x08..0x77 is rejected and
\* leaves i2cAddress as it was.
C2_AddressInRange ==
  /\ i2cAddress = 80
  /\ [](i2cAddress \in 8..119)
  /\ [][(req'.cmd = "a" /\ U8(req'.value) \notin 8..119) =>
          /\ i2cAddress' = i2cAddress
          /\ out' = <<Msg("Invalid I2C address! Valid range is 0x08-0x77")>>]_vars

\* 0x78 was typed, and rejected, while the address was 0x77.
C2_Witness ==
  /\ req.cmd = "a"
  /\ req.value = 120
  /\ i2cAddress = 119
  /\ out = <<Msg("Invalid I2C address! Valid range is 0x08-0x77")>>

\* C3: an accepted setI2CAddress(a) makes i2cAddress a, a rejected one and
\* every other command leave it, and in EEPROM mode every transaction of
\* a read, write, erase or status command (presence probe, address phase,
\* data write, read request) is sent to i2cAddress.
C3_TransactionsGoToSetAddress ==
  [][/\ (req'.cmd = "a" /\ U8(req'.value) \in 8..119) =>
          i2cAddress' = U8(req'.value)
     /\ (req'.cmd = "a" /\ U8(req'.value) \notin 8..119) =>
          i2cAddress' = i2cAddress
     /\ req'.cmd # "a" => i2cAddress' = i2cAddress
     /\ (currentMemoryType' = "MEM_I2C_EEPROM"
         /\ req'.cmd \in {"r", "w", "e", "s"}) =>
          \A k \in 1..Len(i2cLog') : i2cLog'[k].dev = i2cAddress']_vars

\* A read of 17 bytes with the address set to 0x61: a probe, then two
\* address phases and two read requests, all to 0x61.
C3_Witness ==
  /\ currentMemoryType = "MEM_I2C_EEPROM"
  /\ req.cmd = "r"
  /\ i2cAddress = 97
  /\ Len(i2cLog) = 5
  /\ \A k \in 1..5 : i2cLog[k].dev = 97
  /\ {i2cLog[k].k : k \in 1..5} = {"probe", "setptr", "request"}

\* C4: setI2CAddress takes effect only in EEPROM mode: with nothing, the
\* NAND flash or the SPI flash selected, command a leaves i2cAddress as
\* it was, also for a value in range.
C4_OnlyInEepromMode ==
  [][(req'.cmd = "a" /\ currentMemoryType # "MEM_I2C_EEPROM") =>
       i2cAddress' = i2cAddress]_vars

\* C5: selecting a technology puts i2cAddress back to 0x50.
C5_SelectResetsAddress ==
  [][(pc = "idle" /\ req'.cmd \in SelectCommands) =>
       i2cAddress' = 80]_vars

\* C5, as the sketch has it: selecting a technology leaves i2cAddress as
\* it was, and selecting the EEPROM prints it as the current address.
C5_SelectKeepsAddress ==
  [][(pc = "idle" /\ req'.cmd \in SelectCommands) =>
       /\ i2cAddress' = i2cAddress
       /\ req'.cmd = "3" =>
            out' = <<Msg("I2C EEPROM mode selected"),
                     MsgN("Current I2C address", i2cAddress)>>]_vars

\* The EEPROM was selected with the address at 0x61.
C5_Witness ==
  /\ req.cmd = "3"
  /\ currentMemoryType = "MEM_I2C_EEPROM"
  /\ i2cAddress = 97
  /\ out = <<Msg("I2C EEPROM mode selected"), MsgN("Current I2C address", 97)>>

\* The events of a completed nandReset; rb is how its wait ended.
ResetSequence(rb) ==
  <<<<"CE", 0>>, <<"CLE", 1>>, <<"W", 255>>, <<"CLE", 0>>, <<"RB", rb>>,
    <<"CE", 1>>>>

\* C6: selecting the NAND flash runs the reset sequence (chip-enable low,
\* 0xFF strobed under command latch, the wait for ready/busy, chip-enable
\* high) and nothing else; until it has completed no other command is
\* taken, so no other NAND command byte precedes its end.  Selecting the
\* SPI flash or the EEPROM puts nothing on the NAND bus.
C6_ResetOnNandSelect ==
  /\ [](req.cmd = "1" =>
          IF pc = "idle"
          THEN /\ \E rb \in {0, 1} : nandLog = ResetSequence(rb)
               /\ nandCE = 1
          ELSE /\ pc = "waitForNandReady"
               /\ nandLog = SubSeq(ResetSequence(1), 1, 4)
               /\ nandCE = 0)
  /\ [](req.cmd \in {"2", "3"} => (nandLog = <<>> /\ pc = "idle"))
  /\ [][(req.cmd = "1" /\ pc # "idle") => req' = req]_vars

\* The reset of a selection has completed after its wait timed out.
C6_Witness ==
  /\ req.cmd = "1"
  /\ pc = "idle"
  /\ nandLog = ResetSequence(0)
  /\ out = <<Msg("NAND Flash mode selected"),
             Msg("Warning: NAND Flash timeout"),
             Msg("NAND Flash reset complete")>>

\* C7: a NAND write with (address mod 512) + numBytes > 512 prints the
\* boundary error and returns at once: chip-enable stays high, no command,
\* address or data byte is strobed, and the device keeps what it held.
C7_BoundaryViolation ==
  /\ []((/\ currentMemoryType = "MEM_NAND_FLASH"
         /\ req.cmd = "w"
         /\ (req.address[2] % 512) + Len(req.data) > 512) =>
          /\ pc = "idle"
          /\ nandLog = <<>>
          /\ nandCE = 1
          /\ out = <<Msg("Writing"),
                     Msg("Error: Write crosses page boundary!")>>)
  /\ [][(/\ currentMemoryType = "MEM_NAND_FLASH"
         /\ req'.cmd = "w"
         /\ (req'.address[2] % 512) + Len(req'.data) > 512) =>
          (nandDev' = nandDev /\ pins' = pins)]_vars

\* Three bytes at 0x1FE were refused while the device held a page.
C7_Witness ==
  /\ currentMemoryType = "MEM_NAND_FLASH"
  /\ req.cmd = "w"
  /\ req.address = <<0, 510>>
  /\ Len(req.data) = 3
  /\ out = <<Msg("Writing"), Msg("Error: Write crosses page boundary!")>>
  /\ nandLog = <<>>
  /\ nandDev.data # <<>>

\* C8: a NAND write of n bytes at a (a mod 512 + n <= 512) that reported
\* status bit 0 clear, followed by a read of n bytes at a, reads back the
\* bytes written, in order: the read sends the row and column the write
\* programmed.
C8_NandRoundTrip ==
  (/\ currentMemoryType = "MEM_NAND_FLASH"
   /\ req.cmd = "r"
   /\ pc = "idle"
   /\ expect # <<>>) =>
    Values(ReadBytes(nandLog)) = expect[1]

\* Two bytes written at 0x20003FE (page 65537, which the 16-bit page
\* variable holds as 1) have been read back.
C8_Witness ==
  /\ currentMemoryType = "MEM_NAND_FLASH"
  /\ req.cmd = "r"
  /\ pc = "idle"
  /\ req.address = <<512, 1022>>
  /\ expect = <<<<161, 162>>>>
  /\ Values(ReadBytes(nandLog)) = <<161, 162>>

\* The frames of an SPI log: for each falling edge of chip select, the
\* bytes sent up to the next edge.
SpiFrames(log) ==
  LET starts == Ascending({i \in 1..Len(log) : log[i] = <<"CS", 0, 0>>})
      End(i) == CHOOSE j \in (i + 1)..Len(log) :
                  /\ log[j][1] = "CS"
                  /\ \A m \in (i + 1)..(j - 1) : log[m][1] # "CS"
  IN [k \in 1..Len(starts) |->
        [m \in 1..(End(starts[k]) - starts[k] - 1) |-> log[starts[k] + m][2]]]

\* The page-program frames of an SPI log (command byte 0x02), in order.
IsPageProgram(f) == Len(f) >= 4 /\ f[1] = 2
PagePrograms(log) == SelectSeq(SpiFrames(log), IsPageProgram)

\* The three address bytes of a 24-bit address, most significant first.
Bytes24(a) == <<a[1] % 256, a[2] \div 256, a[2] % 256>>

\* C9: an SPI write with (address mod 256) + numBytes > 256 sends exactly
\* two page-program frames: the first 256 - offset bytes of the data at
\* address, the rest at address + (256 - offset), the two payloads making
\* up the data in order; any other write sends exactly one page-program
\* frame with the data at address.  The address of a frame is its three
\* address bytes, the low 24 bits.
C9_SpiPageSplit ==
  (currentMemoryType = "MEM_SPI_FLASH" /\ req.cmd = "w") =>
    LET pp == PagePrograms(spiLog)
        offset == req.address[2] % 256
        n == Len(req.data)
        first == 256 - offset
        Addr(f) == SubSeq(f, 2, 4)
        Payload(f) == SubSeq(f, 5, Len(f))
    IN IF offset + n > 256
       THEN /\ Len(pp) = 2
            /\ Addr(pp[1]) = Bytes24(req.address)
            /\ Payload(pp[1]) = SubSeq(req.data, 1, first)
            /\ Addr(pp[2]) = Bytes24(UlAdd(req.address, first))
            /\ Payload(pp[2]) = SubSeq(req.data, first + 1, n)
            /\ Payload(pp[1]) \o Payload(pp[2]) = req.data
       ELSE /\ Len(pp) = 1
            /\ Addr(pp[1]) = Bytes24(req.address)
            /\ Payload(pp[1]) = req.data

\* Three bytes written at 0xFE: two at 0x0000FE, one at 0x000100.
C9_Witness ==
  /\ currentMemoryType = "MEM_SPI_FLASH"
  /\ req.cmd = "w"
  /\ req.address = <<0, 254>>
  /\ req.data = <<17, 18, 19>>
  /\ PagePrograms(spiLog) = <<<<2, 0, 0, 254, 17, 18>>, <<2, 0, 1, 0, 19>>>>

\* The write transactions of an EEPROM write, in order.
IsChunk(t) == t.k = "chunk"
Chunks(log) == SelectSeq(log, IsChunk)

\* The data bytes of a sequence of transactions, in order.
RECURSIVE Carried(_)
Carried(ts) ==
  IF ts = <<>> THEN <<>> ELSE Head(ts).data \o Carried(Tail(ts))

\* What holds of the chunks of every EEPROM write: each stays inside an
\* 8-byte page and has at least one byte, the first is at the address
\* given, and together they carry the data if the device answered the
\* probe (none is sent if it did not); the call has returned.
ChunksWithinPages ==
  LET cs == Chunks(i2cLog)
  IN /\ pc = "idle"
     /\ \A k \in 1..Len(cs) :
          /\ (cs[k].cur[2] % 8) + Len(cs[k].data) <= 8
          /\ Len(cs[k].data) >= 1
     /\ Len(cs) > 0 => cs[1].cur = req.address
     /\ Carried(cs) = IF i2cLog[1].ack THEN req.data ELSE <<>>

EepromWrite == currentMemoryType = "MEM_I2C_EEPROM" /\ req.cmd = "w"

\* C10: the chunks of an EEPROM write stay inside 8-byte pages, have at
\* least one byte, carry the data in order, and are contiguous and in
\* ascending address order.
C10_ChunksAscending ==
  EepromWrite =>
    /\ ChunksWithinPages
    /\ \A k \in 1..(Len(Chunks(i2cLog)) - 1) :
         LET c == Chunks(i2cLog)[k]
             d == Chunks(i2cLog)[k + 1]
         IN /\ d.cur = UlAdd(c.cur, Len(c.data))
            /\ UlLess(c.cur, d.cur)

\* C10, as the sketch has it: the chunks stay inside 8-byte pages, have
\* at least one byte and carry the data in order; each starts where the
\* one before ended in 32-bit arithmetic, so the addresses ascend except
\* that the chunk after the one ending at 0xFFFFFFFF is at 0.
C10_ChunksContiguousMod32 ==
  EepromWrite =>
    /\ ChunksWithinPages
    /\ \A k \in 1..(Len(Chunks(i2cLog)) - 1) :
         LET c == Chunks(i2cLog)[k]
             d == Chunks(i2cLog)[k + 1]
         IN /\ d.cur = UlAdd(c.cur, Len(c.data))
            /\ UlLess(c.cur, d.cur) \/ d.cur = <<0, 0>>

\* Three bytes written at 0xFFFFFFFE: two there, the third at 0.
C10_Witness ==
  /\ EepromWrite
  /\ req.address = <<65535, 65534>>
  /\ Len(Chunks(i2cLog)) = 2
  /\ Chunks(i2cLog)[1].data = <<req.data[1], req.data[2]>>
  /\ Chunks(i2cLog)[2].cur = <<0, 0>>
  /\ Chunks(i2cLog)[2].data = <<req.data[3]>>

\* The address bytes a NAND erase put on the bus.
EraseAddressBytes == Values(AddressBytes(nandLog))

\* Bits 0-7, 8-15 and 16-23 of a number below 2^24.
Bytes3Low(n) == <<n % 256, (n \div 256) % 256, (n \div 65536) % 256>>

NandErase == currentMemoryType = "MEM_NAND_FLASH" /\ req.cmd = "e"

\* C11: a NAND block erase at address sends block = address div 16384 as
\* three address bytes, low byte first (for address 20000: 1, 0, 0).
C11_BlockIndexBytes ==
  (NandErase /\ req.option = "2") =>
    EraseAddressBytes = Bytes3Low(UlDiv(req.address, 16384))

\* The claimed strings for a JEDEC identity.
WinbondParts ==
  [d2 \in 20..24 |->
     CASE d2 = 20 -> "W25Q80 (8Mbit)"
       [] d2 = 21 -> "W25Q16 (16Mbit)"
       [] d2 = 22 -> "W25Q32 (32Mbit)"
       [] d2 = 23 -> "W25Q64 (64Mbit)"
       [] OTHER -> "W25Q128 (128Mbit)"]

\* The vendor table of the decode.
VendorTable == {1, 32, 191, 194, 239}

\* C12: of the three identity bytes read, manufacturer 0xEF with
\* device-high 0x40 and device-low 0x14..0x18 is printed as the Winbond
\* 8/16/32/64/128 Mbit part, any other pair under 0xEF as an unknown
\* Winbond model, and a manufacturer outside the vendor table as
\* "Unknown manufacturer".
C12_IdentityDecode ==
  (currentMemoryType = "MEM_SPI_FLASH" /\ req.cmd = "i") =>
    LET m == spiLog[3][3]
        d1 == spiLog[4][3]
        d2 == spiLog[5][3]
        printed == [k \in 1..(Len(out) - 4) |-> out[k + 4][1]]
    IN /\ Len(spiLog) = 6
       /\ out[2] = MsgN("Manufacturer ID", m)
       /\ out[3] = MsgN("Device ID", 256 * d1 + d2)
       /\ out[4] = Msg("Device: ")
       /\ (m = 239 /\ d1 = 64 /\ d2 \in 20..24) =>
            printed = <<"Winbond ", WinbondParts[d2]>>
       /\ (m = 239 /\ ~(d1 = 64 /\ d2 \in 20..24)) =>
            printed \in {<<"Winbond ", "Unknown W25Q series">>,
                         <<"Winbond ", "Unknown model">>}
       /\ m \notin VendorTable => printed = <<"Unknown manufacturer">>

\* The identity EF 30 18 was read: Winbond, but not of the 0x40 family.
C12_Witness ==
  /\ currentMemoryType = "MEM_SPI_FLASH"
  /\ req.cmd = "i"
  /\ <<spiLog[3][3], spiLog[4][3], spiLog[5][3]>> = <<239, 48, 24>>
  /\ out[5] = Msg("Winbond ")
  /\ out[6] = Msg("Unknown model")

\* C13: every NAND operation that waits for ready/busy (reset, read,
\* write, erase) comes to its end with chip-enable high, also when the
\* line never goes high: the wait has given up once more than 1000 ms
\* have passed.
C13_NandTerminates ==
  /\ [](pc = "waitForNandReady" =>
          /\ elapsed <= 1000
          /\ nandCE = 0
          /\ frame.fn \in {"nandReset", "nandReadData", "nandWriteData",
                           "nandErase"})
  /\ pc = "waitForNandReady" ~> (pc = "idle" /\ nandCE = 1)

\* An erase has run to its end after its wait timed out.
C13_Witness ==
  /\ NandErase
  /\ pc = "idle"
  /\ nandCE = 1
  /\ \E k \in 1..Len(nandLog) : nandLog[k] = <<"RB", 0>>
  /\ nandLog[Len(nandLog)] = <<"CE", 1>>
  /\ \E k \in 1..Len(out) : out[k] = Msg("Warning: NAND Flash timeout")

\* A NAND program or erase has run to its end, through its wait.
NandProgramOrEraseDone ==
  /\ currentMemoryType = "MEM_NAND_FLASH"
  /\ req.cmd \in {"w", "e"}
  /\ pc = "idle"
  /\ \E k \in 1..Len(nandLog) : nandLog[k][1] = "RB"

\* The wait of the operation in nandLog gave up.
NandTimedOut == \E k \in 1..Len(nandLog) : nandLog[k] = <<"RB", 0>>

Printed(text) == \E k \in 1..Len(out) : out[k] = Msg(text)

\* C14: a NAND program or erase whose wait for ready/busy timed out is
\* never reported as a successful program or erase.
C14_TimeoutNotSuccess ==
  (NandProgramOrEraseDone /\ NandTimedOut) =>
    ~(Printed("Program successful") \/ Printed("Erase successful"))

\* The positions of the events of a kind in nandLog.
NandEvents(kind) == {k \in 1..Len(nandLog) : nandLog[k][1] = kind}

\* C15: a NAND program or erase prints its failure exactly when bit 0 of
\* the status byte is set and its success exactly when the bit is clear;
\* the status byte is read after the wait for ready/busy has returned and
\* before chip-enable goes high.
C15_StatusDecidesOutcome ==
  NandProgramOrEraseDone =>
    LET failed == IF req.cmd = "w" THEN "Program failed!" ELSE "Erase failed!"
        done == IF req.cmd = "w" THEN "Program successful"
                ELSE "Erase successful"
        high == {k \in NandEvents("CE") : nandLog[k][2] = 1}
    IN /\ Cardinality(NandEvents("R")) = 1
       /\ Cardinality(NandEvents("RB")) = 1
       /\ Cardinality(high) = 1
       /\ \A r \in NandEvents("R") :
            /\ \A b \in NandEvents("RB") : b < r
            /\ \A h \in high : r < h
            /\ nandLog[r - 2] = nandWriteByte(NAND_CMD_READ_STATUS)
            /\ Printed(failed) <=> nandLog[r][2] % 2 = 1
            /\ Printed(done) <=> nandLog[r][2] % 2 = 0

\* A program the device refused: the line went high, bit 0 was set.
C15_Witness ==
  /\ NandProgramOrEraseDone
  /\ req.cmd = "w"
  /\ ~NandTimedOut
  /\ \E r \in NandEvents("R") : nandLog[r][2] % 2 = 1
  /\ Printed("Program failed!")

EepromErase == currentMemoryType = "MEM_I2C_EEPROM" /\ req.cmd = "e"

\* Some transaction of the operation in i2cLog was not acknowledged.
SomeNotAcknowledged == \E k \in 1..Len(i2cLog) : ~i2cLog[k].ack

\* C16: an EEPROM write or erase in which the probe or a chunk was not
\* acknowledged does not report that it is complete.
C16_SuccessOnlyIfAcknowledged ==
  /\ (EepromWrite /\ SomeNotAcknowledged) => ~Printed("Write complete")
  /\ (EepromErase /\ SomeNotAcknowledged) => ~Printed("Erase complete")

\* An EEPROM read or write that reached the bus.
EepromTransfer ==
  /\ currentMemoryType = "MEM_I2C_EEPROM"
  /\ req.cmd \in {"r", "w"}
  /\ i2cLog # <<>>

\* C17: an EEPROM read or write begins with a probe of the bus address
\* set; if the probe is not acknowledged the call ends there with the
\* "not responding" error: no address phase, no data byte and no read
\* request follows the failed probe.
C17_ProbeFirst ==
  EepromTransfer =>
    /\ i2cLog[1] = I2cTxn("probe", i2cAddress, <<>>, <<>>, 0, i2cLog[1].ack,
                          ULong(0))
    /\ ~i2cLog[1].ack =>
         /\ Len(i2cLog) = 1
         /\ out[Len(out)] = MsgN("Error: Device not responding", i2cAddress)
         /\ ~Printed("Write complete")

\* A read of an absent device: the probe alone is on the bus.
C17_Witness ==
  /\ EepromTransfer
  /\ req.cmd = "r"
  /\ req.numBytes > 0
  /\ Len(i2cLog) = 1
  /\ ~i2cLog[1].ack
  /\ Printed("Reading")

\* C18: the commands i, r, w, e and s, whether they succeed or fail,
\* and the polling they wait in, leave currentMemoryType and i2cAddress
\* as they were; currentMemoryType changes only in a select command and
\* i2cAddress only in a setI2CAddress whose value is accepted.
C18_SelectionPersists ==
  [][/\ (pc = "idle" /\ req'.cmd \in Operations) => UNCHANGED globals
     /\ pc # "idle" => UNCHANGED globals
     /\ currentMemoryType' # currentMemoryType =>
          /\ pc = "idle"
          /\ req'.cmd \in SelectCommands
          /\ currentMemoryType' = TypeOf(req'.cmd)
     /\ i2cAddress' # i2cAddress =>
          /\ pc = "idle"
          /\ req'.cmd = "a"
          /\ U8(req'.value) \in I2C_ADDR_MIN..I2C_ADDR_MAX
          /\ i2cAddress' = U8(req'.value)]_vars

\* A read of the EEPROM at 0x61 failed; technology and address are kept.
C18_Witness ==
  /\ currentMemoryType = "MEM_I2C_EEPROM"
  /\ i2cAddress = 97
  /\ req.cmd = "r"
  /\ out[Len(out)] = MsgN("Error: Device not responding", 97)

\* A NAND read or write that reached the bus.
NandTransfer ==
  /\ currentMemoryType = "MEM_NAND_FLASH"
  /\ req.cmd \in {"r", "w"}
  /\ nandLog # <<>>

\* C19: a NAND read or write at address a sends exactly five address
\* bytes: the low and high byte of a mod 512, then bits 0-7, 8-15 and
\* 16-23 of a div 512, the quotient not truncated.
C19_FiveAddressBytes ==
  NandTransfer =>
    LET offset == UlMod(req.address, 512)
        page == UlDiv(req.address, 512)
    IN Values(AddressBytes(nandLog))
         = <<offset % 256, offset \div 256>> \o Bytes3Low(page)

\* C20: every NAND erase that reaches the bus, whatever the option, has
\* exactly three address bytes between the erase command and the erase
\* confirm; the confirm never follows the erase command directly.
C20_SingleBlockErase ==
  (NandErase /\ nandLog # <<>>) =>
    /\ SubSeq(nandLog, 2, 4) = NandCommand(NAND_CMD_ERASE)
    /\ Len(EraseAddressBytes) = 3
    /\ SubSeq(nandLog, 5, 9)
         = <<digitalWrite("ALE", 1)>> \o AddressBytes(nandLog)
           \o <<digitalWrite("ALE", 0)>>
    /\ SubSeq(nandLog, 10, 12) = NandCommand(NAND_CMD_ERASE_CONFIRM)

\* An SPI write that reached the bus.
SpiWrite ==
  /\ currentMemoryType = "MEM_SPI_FLASH"
  /\ req.cmd = "w"
  /\ spiLog # <<>>

\* The places of spiLog where a page-level write is over: the end of the
\* log, and the event before the write-enable of a second page program.
PageWriteEnds ==
  {i \in 4..Len(spiLog) :
     \/ i = Len(spiLog)
     \/ /\ i + 3 <= Len(spiLog)
        /\ SubSeq(spiLog, i + 1, i + 3) = SpiWriteEnable}

\* C21: an SPI page-level write is over, and in a split write the second
\* page program is begun, only after a status read that returned bit 0
\* (write in progress) clear.
C21_PolledUntilReady ==
  SpiWrite =>
    \A i \in PageWriteEnds :
      /\ SubSeq(spiLog, i - 3, i - 2)
           = <<spiSelect(0), spiTransfer(SPI_CMD_READ_STATUS, 0)>>
      /\ spiLog[i] = spiSelect(1)
      /\ spiLog[i - 1][3] % 2 = 0

\* An SPI erase that reached the bus.
SpiErase ==
  /\ currentMemoryType = "MEM_SPI_FLASH"
  /\ req.cmd = "e"
  /\ spiLog # <<>>

\* The places of a log where a status read returned its byte.
StatusReads(log) ==
  {k \in 3..Len(log) :
     /\ log[k - 2] = spiSelect(0)
     /\ log[k - 1] = spiTransfer(SPI_CMD_READ_STATUS, 0)}

\* The erase frame claimed for a scope.
EraseFrame(option, address) ==
  CASE option = "1" -> <<32>> \o Bytes24(address)
    [] option = "2" -> <<216>> \o Bytes24(address)
    [] OTHER -> <<199>>

\* C22: an SPI erase sends write-enable, then the erase command of its
\* scope (0x20 or 0xD8 with the three address bytes, most significant
\* first, or 0xC7 alone), then nothing but status reads; it has printed
\* "Erase complete" and returned only after a status read with bit 0
\* clear, every read before that had bit 0 set, and the loop is left by
\* no step other than such a read: while bit 0 stays set it goes on.
C22_SpiEraseWaits ==
  /\ [](SpiErase =>
         LET fs == SpiFrames(spiLog)
             reads == StatusReads(spiLog)
         IN /\ fs[1] = <<6>>
            /\ fs[2] = EraseFrame(req.option, req.address)
            /\ \A k \in 3..Len(fs) : fs[k] = <<5, 0>>
            /\ Cardinality(reads) = Len(fs) - 2
            /\ pc \in {"idle", "spiErasePoll"}
            /\ pc = "idle" <=> Printed("Erase complete")
            /\ pc = "idle" =>
                 /\ reads # {}
                 /\ spiLog[Max(reads)][3] % 2 = 0
                 /\ \A k \in reads \ {Max(reads)} : spiLog[k][3] % 2 = 1
            /\ pc = "spiErasePoll" => \A k \in reads : spiLog[k][3] % 2 = 1)
  /\ [][(pc = "spiErasePoll" /\ pc' # pc) =>
          /\ pc' = "idle"
          /\ spiLog'[Len(spiLog') - 1][3] % 2 = 0]_vars
  /\ [][(pc = "spiErasePoll" /\ spiLog' # spiLog) =>
          /\ spiLog'[Len(spiLog') - 1][3] % 2 = 1 => pc' = "spiErasePoll"]_vars

\* A block erase has returned after the flash was read busy.
C22_Witness ==
  /\ SpiErase
  /\ req.option = "2"
  /\ pc = "idle"
  /\ Printed("Erase complete")
  /\ \E k \in StatusReads(spiLog) : spiLog[k][3] % 2 = 1

\* The command bytes that program or erase: page program, sector erase,
\* 64 KiB block erase, chip erase.
SpiModifying == {2, 32, 216, 199}

\* C23: in an SPI write or erase every page-program frame and every erase
\* frame comes directly after a frame that holds the write-enable command
\* 0x06 alone, so that each of the two page programs of a split write has
\* a write-enable of its own.
C23_WriteEnableFirst ==
  (SpiWrite \/ SpiErase) =>
    LET fs == SpiFrames(spiLog)
        modifying == {k \in 1..Len(fs) : fs[k] # <<>> /\ fs[k][1] \in SpiModifying}
        enables == {k \in 1..Len(fs) : fs[k] = <<6>>}
    IN /\ modifying # {}
       /\ \A k \in modifying : k > 1 /\ fs[k - 1] = <<6>>
       /\ Cardinality(enables) = Cardinality(modifying)

\* A split write: write-enable, program, status, and the three again.
C23_Witness ==
  /\ SpiWrite
  /\ Len(SpiFrames(spiLog)) = 6
  /\ SpiFrames(spiLog)[1] = <<6>>
  /\ SpiFrames(spiLog)[4] = <<6>>
  /\ Len(PagePrograms(spiLog)) = 2

\* A scan of the two-wire bus.
EepromScan == currentMemoryType = "MEM_I2C_EEPROM" /\ req.cmd = "i"

\* What a scan prints for the probes of a log: a line per acknowledged
\* address, in the order probed, or that there is none.
ScanReport(log) ==
  LET IsFound(t) == t.ack
      found == SelectSeq(log, IsFound)
  IN IF found = <<>> THEN <<Msg("No I2C devices found!")>>
     ELSE [k \in 1..Len(found) |->
             IF found[k].dev \in 80..87
             THEN MsgN("Device found (likely EEPROM)", found[k].dev)
             ELSE MsgN("Device found", found[k].dev)]

\* The scan probed the addresses lo..hi, each once, in ascending order,
\* and printed what the probes found.
ScanCovers(lo, hi) ==
  /\ Len(i2cLog) = hi - lo + 1
  /\ \A k \in 1..Len(i2cLog) :
       i2cLog[k] = I2cTxn("probe", lo + k - 1, <<>>, <<>>, 0, i2cLog[k].ack,
                          ULong(0))
  /\ SubSeq(out, 3, Len(out)) = ScanReport(i2cLog)

\* C24: the bus scan probes every address of the half-open range
\* 0x08..0x77, 0x77 not included, once each and in ascending order and
\* none outside; an address is printed exactly if its probe is
\* acknowledged, as likely EEPROM exactly if it lies in 0x50..0x57.
C24_ScanHalfOpen == EepromScan => ScanCovers(8, 118)

\* C24, as the sketch has it: the range probed is 0x08..0x77 with both
\* ends included.
C24_ScanInclusive == EepromScan => ScanCovers(8, 119)

\* Devices answered at 0x3C, 0x57 and 0x77.
C24_Witness ==
  /\ EepromScan
  /\ i2cLog[Len(i2cLog)].dev = 119
  /\ i2cLog[Len(i2cLog)].ack
  /\ SubSeq(out, 3, Len(out))
       = <<MsgN("Device found", 60), MsgN("Device found (likely EEPROM)", 87),
           MsgN("Device found", 119)>>

\* The transactions of a log that carry an address phase.
Addressed(log) == {k \in 1..Len(log) : log[k].k \in {"chunk", "setptr"}}

\* C25: the width of the address phase is decided by the address the
\* EEPROM read or write was called with: above 255, every chunk of the
\* call sends two address bytes, the high one first; otherwise every
\* chunk sends one.
C25_WidthPerCall ==
  EepromTransfer =>
    \A k \in Addressed(i2cLog) :
      LET cur == i2cLog[k].cur
      IN i2cLog[k].abytes
           = IF req.address[1] > 0 \/ req.address[2] > 255
             THEN <<cur[2] \div 256, cur[2] % 256>>
             ELSE <<cur[2] % 256>>

\* Three bytes written from 0xFE: the chunk at 0x100 has one address
\* byte, as the chunk at 0xFE has.
C25_Witness ==
  /\ EepromWrite
  /\ req.address = <<0, 254>>
  /\ Len(Chunks(i2cLog)) = 2
  /\ Chunks(i2cLog)[1].abytes = <<254>>
  /\ Chunks(i2cLog)[2].cur = <<0, 256>>
  /\ Chunks(i2cLog)[2].abytes = <<0>>

\* The address that the address phase of a transaction carries.
PhaseAddress(t) ==
  IF Len(t.abytes) = 2 THEN 256 * t.abytes[1] + t.abytes[2] ELSE t.abytes[1]

\* The data bytes of the chunks of a log, as <<chunk, byte>> places, and
\* the address at which the device stores each.
WrittenPlaces(log) ==
  {p \in (1..Len(log)) \X (1..8) : log[p[1]].k = "chunk"
                                   /\ p[2] <= Len(log[p[1]].data)}
WrittenAt(log, p) == PhaseAddress(log[p[1]]) + p[2] - 1

\* The number of bytes an EEPROM erase of a scope is to fill, and where
\* the fill is to start.
FillSize(option) ==
  CASE option = "1" -> 256 [] option = "2" -> 4096 [] OTHER -> 32768
FillStart(option, address) == IF option = "3" THEN 0 ELSE address[2]

\* C26: an EEPROM erase that the device acknowledged throughout has
\* written 0xFF to each address of its window (256 bytes from the address
\* for a sector, 4096 for a block, 32768 from address 0 for the chip)
\* exactly once and to no address outside the window.
C26_EraseWindow ==
  (EepromErase /\ i2cLog # <<>> /\ ~SomeNotAcknowledged) =>
    LET places == WrittenPlaces(i2cLog)
        start == FillStart(req.option, req.address)
        window == start..(start + FillSize(req.option) - 1)
    IN /\ \A p \in places : i2cLog[p[1]].data[p[2]] = 255
       /\ Cardinality(places) = FillSize(req.option)
       /\ {WrittenAt(i2cLog, p) : p \in places} = window

\* A read that has returned, and the bytes the device gave it.
ReadDone ==
  /\ req.cmd = "r"
  /\ pc = "idle"
  /\ currentMemoryType # "MEM_UNKNOWN"
  /\ ~SomeNotAcknowledged

ReturnedBytes ==
  CASE currentMemoryType = "MEM_NAND_FLASH" -> Values(ReadBytes(nandLog))
    [] currentMemoryType = "MEM_SPI_FLASH" ->
         [k \in 1..(Len(spiLog) - 7) |-> spiLog[6 + k][3]]
    [] OTHER ->
         LET IsRequest(t) == t.k = "request"
         IN Carried(SelectSeq(i2cLog, IsRequest))

\* The rows of the dump in out.
PrintedRows == LET IsRow(m) == m[1] = "row" IN SelectSeq(out, IsRow)

\* C27: a read prints the same rows whatever the technology: row k (from
\* 0, 16 bytes to a row) has the number start + 16k, the bytes of the row
\* in hex, and the same bytes as printable ASCII or dots.
C27_SameRows ==
  ReadDone =>
    LET bytes == ReturnedBytes
        rows == PrintedRows
    IN /\ Len(rows) = (Len(bytes) + 15) \div 16
       /\ \A k \in 1..Len(rows) :
            LET row == SubSeq(bytes, 16 * (k - 1) + 1,
                              IF 16 * k < Len(bytes) THEN 16 * k ELSE Len(bytes))
            IN /\ rows[k][2] = UlAdd(req.address, 16 * (k - 1))
               /\ rows[k][3] = row
               /\ rows[k][4] = [j \in 1..Len(row) |->
                                  IF row[j] \in 32..126 THEN row[j] ELSE 46]

\* C28: in an EEPROM read or write that ends at or below address 65535,
\* the address phase of every chunk carries the current address of that
\* chunk, also in a call that starts at or below 255 and runs past it.
C28_PhaseCarriesAddress ==
  (EepromTransfer /\ req.address[1] = 0
                  /\ req.address[2] + req.numBytes <= 65536) =>
    \A k \in Addressed(i2cLog) :
      /\ i2cLog[k].cur[1] = 0
      /\ PhaseAddress(i2cLog[k]) = i2cLog[k].cur[2]

\* C29: while no NAND operation is under way chip-enable is high and
\* command-latch and address-latch are low; the two latches are never
\* high together, neither between operations nor at any point of one;
\* and every byte strobed out or sampled is strobed or sampled with
\* chip-enable low.
C29_ControlLines ==
  /\ pc = "idle" => (nandCE = 1 /\ nandCLE = 0 /\ nandALE = 0)
  /\ ~(nandCLE = 1 /\ nandALE = 1)
  /\ \A i \in 1..(Len(nandLog) + 1) :
       ~(LevelAt(nandLog, "CLE", i, 0) = 1 /\ LevelAt(nandLog, "ALE", i, 0) = 1)
  /\ \A i \in NandEvents("W") \cup NandEvents("R") :
       LevelAt(nandLog, "CE", i, 1) = 0

\* A read has returned after its wait timed out, the lines at rest.
C29_Witness ==
  /\ NandTransfer
  /\ req.cmd = "r"
  /\ pc = "idle"
  /\ NandTimedOut
  /\ NandEvents("R") # {}
  /\ pins = <<1, 0, 0>>

====
